---- MODULE Spec2Model ----
(***************************************************************************)
(* The metric accumulators of flax/nnx/nnx/training/metrics.py: Average,   *)
(* Welford, Accuracy and MultiMetric.  One accumulator is constructed      *)
(* (Init) and then receives reset, update and compute calls.               *)
(*                                                                         *)
(* float32 cells hold exact rationals [num, den] (den = 0 encodes NaN and  *)
(* the infinities), so the arithmetic is the arithmetic of the code with   *)
(* rounding left out.  Arrays are non-empty, flattened element sequences.  *)
(***************************************************************************)
EXTENDS Integers, Sequences, FiniteSets

VARIABLES
  metric,   \* the accumulator object: its attributes (state cells)
  call,     \* the last call made on it: operation, arguments' shape, outcome
  obs,      \* history: the observations a leaf accumulator was fed since reset
  shadow,   \* history: a MultiMetric's children, each driven on its own
  allOk,    \* history: no call on the object has raised so far
  solo      \* history: what the last call's children did, each called on its own

vars == <<metric, call, obs, shadow, allOk, solo>>

\* ------------------------------------------------------------------ bounds
MaxBatch == 2   \* elements (rows) of one array argument
MaxObs   == 3   \* cap on count, so that the state space is finite
MaxChildren == 2 \* metrics held by one MultiMetric

\* --------------------------------------------------- exact float arithmetic
Abs(n) == IF n < 0 THEN -n ELSE n

Sign(n) == IF n < 0 THEN -1 ELSE IF n > 0 THEN 1 ELSE 0

RECURSIVE GCD(_, _)
GCD(a, b) == IF b = 0 THEN a ELSE GCD(b, a % b)

\* n/d in lowest terms; n/0 is NaN (n = 0) or a signed infinity
Norm(n, d) ==
  IF d = 0 THEN [num |-> Sign(n), den |-> 0]
  ELSE LET g == GCD(Abs(n), Abs(d))
           s == IF d < 0 THEN -1 ELSE 1
       IN  [num |-> (s * n) \div g, den |-> (s * d) \div g]

R(n) == [num |-> n, den |-> 1]

NaN == [num |-> 0, den |-> 0]

IsNaN(a) == a.num = 0 /\ a.den = 0

RAdd(a, b) ==
  IF a.den = 0 /\ b.den = 0
  THEN (IF a = b THEN a ELSE NaN)
  ELSE Norm(a.num * b.den + b.num * a.den, a.den * b.den)

RNeg(a) == [num |-> -a.num, den |-> a.den]

RSub(a, b) == RAdd(a, RNeg(b))

RMul(a, b) == Norm(a.num * b.num, a.den * b.den)

\* IEEE division: x/0 is an infinity, 0/0 is NaN, nothing raises
RDiv(a, b) ==
  LET s == IF b.num < 0 THEN -1 ELSE 1
  IN  Norm(s * a.num * b.den, s * a.den * b.num)

RGeq0(a) == a.den > 0 /\ a.num >= 0

\* x ** 0.5, kept symbolic: the non-negative root of sq (NaN of NaN or of x < 0)
RootNaN == [sq |-> NaN]

Sqrt(a) == IF IsNaN(a) \/ a.num < 0 THEN RootNaN ELSE [sq |-> a]

\* sqrt(a) / sqrt(b)
RootDiv(ra, rb) ==
  IF IsNaN(ra.sq) \/ IsNaN(rb.sq) THEN RootNaN ELSE [sq |-> RDiv(ra.sq, rb.sq)]

\* ------------------------------------------------------------------ arrays
RECURSIVE SumSeq(_)
SumSeq(s) == IF s = <<>> THEN 0 ELSE Head(s) + SumSeq(Tail(s))

RECURSIVE SumSq(_)
SumSq(s) == IF s = <<>> THEN 0 ELSE Head(s) * Head(s) + SumSq(Tail(s))

\* jax.Array.mean()
ArrMean(s) == RDiv(R(SumSeq(s)), R(Len(s)))

RECURSIVE SumSqDev(_, _)
SumSqDev(s, m) ==
  IF s = <<>> THEN R(0)
  ELSE LET d == RSub(R(Head(s)), m) IN RAdd(RMul(d, d), SumSqDev(Tail(s), m))

\* jax.Array.var(): mean of the squared deviations from the mean (ddof = 0)
ArrVar(s) == RDiv(SumSqDev(s, ArrMean(s)), R(Len(s)))

\* jax.Array.argmax(axis=-1) of one row: the first index of the maximum, from 0
ArgMax(row) ==
  (CHOOSE i \in 1..Len(row) :
     /\ \A j \in 1..Len(row) : row[j] <= row[i]
     /\ \A j \in 1..(i - 1) : row[j] < row[i]) - 1

\* logits.argmax(axis=-1) == labels, as a 0/1 array
Matches(rows, labels) ==
  [i \in 1..Len(rows) |-> IF ArgMax(rows[i]) = labels[i] THEN 1 ELSE 0]

\* --------------------------------------------------------------- arguments
\* A keyword argument of update: absent, a Python number, or a jax.Array
NoArg == [tag |-> "none", data |-> <<>>]

Scalar(v) == [tag |-> "scalar", data |-> <<v>>]

Arr(s) == [tag |-> "array", data |-> s]

NoLogits == [tag |-> "none", ndim |-> 0, rows |-> <<>>]

LogitsArr(nd, rs) == [tag |-> "array", ndim |-> nd, rows |-> rs]

NoLabels == [tag |-> "none", dtype |-> "none", ndim |-> 0, data |-> <<>>]

LabelsArr(dt, nd, ls) == [tag |-> "array", dtype |-> dt, ndim |-> nd, data |-> ls]

\* the keywords of a call that are present
Keys(kwargs) ==
  {k \in {"values", "loss", "logits", "labels"} : kwargs[k].tag # "none"}

\* ----------------------------------------------------------------- outcomes
None == [none |-> TRUE]

\* a call that returned None, one that returned a value, one that raised
Ok(state) ==
  [state |-> state, raised |-> "none", result |-> None, failedAt |-> 0]

Returned(state, value) ==
  [state |-> state, raised |-> "none", result |-> value, failedAt |-> 0]

Raise(state, error) ==
  [state |-> state, raised |-> error, result |-> None, failedAt |-> 0]

\* ------------------------------------------------------------------ Average
Average(argname) ==
  [kind |-> "Average", argname |-> argname, total |-> R(0), count |-> 0]

\* reset that clears the count and leaves the running sum
AverageResetKeepsTotal(self) == Ok([self EXCEPT !.count = 0])

AverageReset(self) == Ok([self EXCEPT !.total = R(0), !.count = 0])

\* update that counts calls, not elements
AverageUpdateCountsCalls(self, kwargs) ==
  IF kwargs[self.argname].tag = "none"
  THEN Raise(self, "TypeError")
  ELSE LET values == kwargs[self.argname]
       IN  Ok([self EXCEPT !.total = RAdd(@, R(SumSeq(values.data))),
                           !.count = @ + 1])

\* update that takes a missing keyword for nothing to add
AverageUpdateIgnoresMissing(self, kwargs) ==
  IF kwargs[self.argname].tag = "none"
  THEN Ok(self)
  ELSE LET values == kwargs[self.argname]
       IN  Ok([self EXCEPT !.total = RAdd(@, R(SumSeq(values.data))),
                           !.count = @ + Len(values.data)])

AverageUpdate(self, kwargs) ==
  IF kwargs[self.argname].tag = "none"
  THEN Raise(self, "TypeError")
  ELSE LET values == kwargs[self.argname]
           isNumber == values.tag = "scalar"
       IN  Ok([self EXCEPT
                 !.total = RAdd(@, IF isNumber THEN R(values.data[1])
                                   ELSE R(SumSeq(values.data))),
                 !.count = @ + (IF isNumber THEN 1 ELSE Len(values.data))])

\* compute that starts a new window once it has been read
AverageComputeAndClear(self) ==
  Returned([self EXCEPT !.total = R(0), !.count = 0],
           RDiv(self.total, R(self.count)))

AverageCompute(self) == Returned(self, RDiv(self.total, R(self.count)))

\* ------------------------------------------------------------------ Welford
Welford(argname) ==
  [kind |-> "Welford", argname |-> argname, count |-> 0, countDtype |-> "int32",
   mean |-> R(0), m2 |-> R(0)]

\* reset that leaves the running mean
WelfordResetKeepsMean(self) ==
  Ok([self EXCEPT !.count = 0, !.countDtype = "uint32", !.m2 = R(0)])

WelfordReset(self) ==
  Ok([self EXCEPT !.count = 0, !.countDtype = "uint32",
                  !.mean = R(0), !.m2 = R(0)])

\* the correction term with the count after the update in the numerator too
M2CorrectionPostCount(delta, count, original_count, new_count) ==
  RDiv(RMul(RMul(RMul(delta, delta), R(count)), R(new_count)), R(new_count))

\* the correction term of m2: delta * delta * count * original_count / self.count
M2Correction(delta, count, original_count, new_count) ==
  RDiv(RMul(RMul(RMul(delta, delta), R(count)), R(original_count)), R(new_count))

WelfordUpdate(self, kwargs) ==
  IF kwargs[self.argname].tag = "none"
  THEN Raise(self, "TypeError")
  ELSE LET values == kwargs[self.argname]
           isNumber == values.tag = "scalar"
           count == IF isNumber THEN 1 ELSE Len(values.data)
           original_count == self.count
           new_count == self.count + count
           delta == RSub(IF isNumber THEN R(values.data[1])
                         ELSE ArrMean(values.data), self.mean)
           mean == RAdd(self.mean, RDiv(RMul(delta, R(count)), R(new_count)))
           m2 == IF isNumber THEN R(0) ELSE RMul(ArrVar(values.data), R(count))
       IN  Ok([self EXCEPT
                 !.count = new_count,
                 !.mean = mean,
                 !.m2 = RAdd(@, RAdd(m2, M2Correction(delta, count,
                                                      original_count, new_count)))])

\* Statistics(mean=self.mean, standard_error_of_mean=sem, standard_deviation=...)
WelfordCompute(self) ==
  LET variance == RDiv(self.m2, R(self.count))
      standard_deviation == Sqrt(variance)
      sem == RootDiv(standard_deviation, Sqrt(R(self.count)))
  IN  Returned(self, [mean |-> self.mean,
                      standard_error_of_mean |-> sem,
                      standard_deviation |-> standard_deviation])

\* ----------------------------------------------------------------- Accuracy
\* Accuracy inherits Average.__init__, argname included
Accuracy(argname) ==
  [kind |-> "Accuracy", argname |-> argname, total |-> R(0), count |-> 0]

\* the check with "and" for "or"
AccuracyRejectsBoth(logits, labels) ==
  logits.ndim # labels.ndim + 1 /\ labels.dtype # "int32"

\* logits.ndim != labels.ndim + 1 or labels.dtype != jnp.int32
AccuracyRejects(logits, labels) ==
  logits.ndim # labels.ndim + 1 \/ labels.dtype # "int32"

\* update(self, *, logits, labels, **_): both keywords are required by the
\* signature; the comparison is handed to Average.update as values=...
AccuracyUpdate(self, kwargs) ==
  IF kwargs.logits.tag = "none" \/ kwargs.labels.tag = "none"
  THEN Raise(self, "TypeError")
  ELSE IF AccuracyRejects(kwargs.logits, kwargs.labels)
  THEN Raise(self, "ValueError")
  ELSE AverageUpdate(self,
         [values |-> Arr(Matches(kwargs.logits.rows, kwargs.labels.data)),
          loss |-> NoArg, logits |-> NoLogits, labels |-> NoLabels])

\* ------------------------------------------------------- Metric (the base)
\* a subclass that overrides __init__ alone: the other methods are the base's
MetricStub == [kind |-> "Metric"]

MetricReset(self) == Raise(self, "NotImplementedError")

MetricUpdate(self, kwargs) == Raise(self, "NotImplementedError")

MetricCompute(self) == Raise(self, "NotImplementedError")

\* ------------------------------------------------- dispatch on the class
LeafReset(self) ==
  CASE self.kind \in {"Average", "Accuracy"} -> AverageReset(self)
    [] self.kind = "Welford" -> WelfordReset(self)
    [] OTHER -> MetricReset(self)

LeafUpdate(self, kwargs) ==
  CASE self.kind = "Average" -> AverageUpdate(self, kwargs)
    [] self.kind = "Accuracy" -> AccuracyUpdate(self, kwargs)
    [] self.kind = "Welford" -> WelfordUpdate(self, kwargs)
    [] OTHER -> MetricUpdate(self, kwargs)

LeafCompute(self) ==
  CASE self.kind \in {"Average", "Accuracy"} -> AverageCompute(self)
    [] self.kind = "Welford" -> WelfordCompute(self)
    [] OTHER -> MetricCompute(self)

\* -------------------------------------------------------------- MultiMetric
\* names in keyword order; vars(self)[metric_name] = metric
MultiMetric(names, metrics) ==
  [kind |-> "MultiMetric", metric_names |-> names,
   attrs |-> [n \in {names[i] : i \in 1..Len(names)} |->
                metrics[CHOOSE i \in 1..Len(names) : names[i] = n]]]

\* the loop of reset from its i-th name on; an exception leaves the loop
RECURSIVE MultiResetFrom(_, _)
MultiResetFrom(self, i) ==
  IF i > Len(self.metric_names) THEN Ok(self)
  ELSE LET name == self.metric_names[i]
           r == LeafReset(self.attrs[name])
           after == [self EXCEPT !.attrs[name] = r.state]
       IN  IF r.raised # "none"
           THEN [Raise(after, r.raised) EXCEPT !.failedAt = i]
           ELSE MultiResetFrom(after, i + 1)

MultiMetricReset(self) == MultiResetFrom(self, 1)

\* the loop of update from its i-th name on, every child given all of updates
RECURSIVE MultiUpdateFrom(_, _, _)
MultiUpdateFrom(self, i, updates) ==
  IF i > Len(self.metric_names) THEN Ok(self)
  ELSE LET name == self.metric_names[i]
           r == LeafUpdate(self.attrs[name], updates)
           after == [self EXCEPT !.attrs[name] = r.state]
       IN  IF r.raised # "none"
           THEN [Raise(after, r.raised) EXCEPT !.failedAt = i]
           ELSE MultiUpdateFrom(after, i + 1, updates)

\* update that leaves out the first metric
MultiMetricUpdateSkipsFirst(self, updates) == MultiUpdateFrom(self, 2, updates)

\* update that puts every metric back when one of them raises
MultiMetricUpdateAtomic(self, updates) ==
  IF MultiUpdateFrom(self, 1, updates).raised # "none"
  THEN [MultiUpdateFrom(self, 1, updates) EXCEPT !.state = self]
  ELSE MultiUpdateFrom(self, 1, updates)

MultiMetricUpdate(self, updates) == MultiUpdateFrom(self, 1, updates)

\* the dict comprehension of compute from its i-th name on; the dict is the
\* sequence of its <<name, value>> items in insertion order
RECURSIVE MultiComputeFrom(_, _, _)
MultiComputeFrom(self, i, items) ==
  IF i > Len(self.metric_names) THEN Returned(self, items)
  ELSE LET name == self.metric_names[i]
           r == LeafCompute(self.attrs[name])
           after == [self EXCEPT !.attrs[name] = r.state]
       IN  IF r.raised # "none"
           THEN [Raise(after, r.raised) EXCEPT !.failedAt = i]
           ELSE MultiComputeFrom(after, i + 1, Append(items, <<name, r.result>>))

MultiMetricCompute(self) == MultiComputeFrom(self, 1, <<>>)

\* ------------------------------------------------------------ the three calls
Reset(self) ==
  IF self.kind = "MultiMetric" THEN MultiMetricReset(self) ELSE LeafReset(self)

Update(self, kwargs) ==
  IF self.kind = "MultiMetric" THEN MultiMetricUpdate(self, kwargs)
  ELSE LeafUpdate(self, kwargs)

Compute(self) ==
  IF self.kind = "MultiMetric" THEN MultiMetricCompute(self)
  ELSE LeafCompute(self)

\* ------------------------------------------------------------------- inputs
\* the observations: a negative and a positive number
Values == {-1, 2}

Batches == UNION {[1..n -> Values] : n \in 1..MaxBatch}

ScalarArgs == {Scalar(v) : v \in Values}

NumArgs == {NoArg} \cup ScalarArgs \cup {Arr(b) : b \in Batches}

\* per-class scores of one example (a tie goes to the first class), and labels
Rows == {<<1, 2>>, <<2, 1>>, <<1, 1>>}

Classes == {0, 1}

\* logits of shape (n, classes) with int32 labels of shape (n,), n = 1 or 2
BatchPairs ==
  UNION {{<<LogitsArr(2, rs), LabelsArr("int32", 1, ls)>> :
            rs \in [1..n -> Rows], ls \in [1..n -> Classes]} : n \in {1, 2}}

\* one example with a wrong rank or label dtype, and a rightly shaped scalar one
OddPairs ==
  {<<LogitsArr(1, <<<<0, 1>>>>), LabelsArr("int32", 1, <<1>>)>>,
   <<LogitsArr(3, <<<<0, 1>>>>), LabelsArr("int32", 1, <<1>>)>>,
   <<LogitsArr(2, <<<<0, 1>>>>), LabelsArr("int64", 1, <<1>>)>>,
   <<LogitsArr(2, <<<<0, 1>>>>), LabelsArr("float32", 1, <<1>>)>>,
   <<LogitsArr(2, <<<<0, 1>>>>), LabelsArr("float32", 2, <<1>>)>>,
   <<LogitsArr(1, <<<<0, 1>>>>), LabelsArr("int32", 0, <<1>>)>>}

\* one of the two keywords left out
HalfPairs ==
  {<<LogitsArr(2, <<<<0, 1>>>>), NoLabels>>,
   <<NoLogits, LabelsArr("int32", 1, <<1>>)>>}

\* the keyword sets of update: one number argument (or none at all), or a
\* classification batch with or without a loss value under values=
UpdateCalls ==
  [values : NumArgs, loss : {NoArg}, logits : {NoLogits}, labels : {NoLabels}]
  \cup
  [values : {NoArg}, loss : NumArgs, logits : {NoLogits}, labels : {NoLabels}]
  \cup
  {[values |-> v, loss |-> NoArg, logits |-> p[1], labels |-> p[2]] :
     v \in {NoArg, Scalar(1)},
     p \in BatchPairs \cup OddPairs \cup HalfPairs}

ArgNames == {"values", "loss"}

\* what a MultiMetric is built from
ChildMetrics ==
  {Average("values"), Accuracy("values"), MetricStub}

NameList == <<"accuracy", "loss", "stats", "extra", "more">>

Constructions ==
  {Average(a) : a \in ArgNames} \cup {Welford(a) : a \in ArgNames}
  \cup {Accuracy(a) : a \in ArgNames}
  \cup UNION {{MultiMetric(SubSeq(NameList, 1, n), ms) :
                 ms \in [1..n -> ChildMetrics]} : n \in 1..MaxChildren}

\* ------------------------------------------------------------------ history
IsMulti(m) == m.kind = "MultiMetric"

Children(m) == [i \in 1..Len(m.metric_names) |-> m.attrs[m.metric_names[i]]]

\* the observations one successful update hands to a leaf accumulator
Observed(m, kwargs) ==
  CASE m.kind \in {"Average", "Welford"} -> kwargs[m.argname].data
    [] m.kind = "Accuracy" -> Matches(kwargs.logits.rows, kwargs.labels.data)
    [] OTHER -> <<>>

Counts(m) ==
  IF IsMulti(m)
  THEN {m.attrs[n].count : n \in {k \in DOMAIN m.attrs : m.attrs[k].kind # "Metric"}}
  ELSE {m.count}

CallRecord(op, kwargs, r) ==
  [op |-> op, raised |-> r.raised, result |-> r.result, failedAt |-> r.failedAt,
   keys |-> Keys(kwargs),
   logitsNdim |-> kwargs.logits.ndim, labelsNdim |-> kwargs.labels.ndim,
   labelsDtype |-> kwargs.labels.dtype]

NoKwargs == [values |-> NoArg, loss |-> NoArg, logits |-> NoLogits, labels |-> NoLabels]

\* -------------------------------------------------------------------- system
Init ==
  /\ metric \in Constructions
  /\ call = CallRecord("init", NoKwargs, Ok(metric))
  /\ obs = <<>>
  /\ shadow = IF IsMulti(metric) THEN Children(metric) ELSE <<>>
  /\ allOk = TRUE
  /\ solo = <<>>

\* a MultiMetric's children driven on their own, while no call has raised
Track(ok, children) == IF ok THEN children ELSE <<>>

\* the outcomes of the children's own calls, up to the first that raises
UpToFirstRaise(outcomes) ==
  SubSeq(outcomes, 1,
         IF \A i \in DOMAIN outcomes : outcomes[i].raised = "none"
         THEN Len(outcomes)
         ELSE CHOOSE i \in DOMAIN outcomes :
                /\ outcomes[i].raised # "none"
                /\ \A j \in 1..(i - 1) : outcomes[j].raised = "none")

DoReset ==
  \E r \in {Reset(metric)} :
    /\ metric' = r.state
    /\ call' = CallRecord("reset", NoKwargs, r)
    /\ obs' = IF r.raised = "none" THEN <<>> ELSE obs
    /\ allOk' = (allOk /\ r.raised = "none")
    /\ shadow' = Track(allOk', [i \in DOMAIN shadow |-> LeafReset(shadow[i]).state])
    /\ solo' = IF IsMulti(metric)
               THEN UpToFirstRaise([i \in DOMAIN Children(metric) |->
                                      LeafReset(Children(metric)[i])])
               ELSE <<>>

DoUpdate ==
  \E kwargs \in UpdateCalls :
    \E r \in {Update(metric, kwargs)} :
      /\ \A c \in Counts(r.state) : c <= MaxObs
      /\ metric' = r.state
      /\ call' = CallRecord("update", kwargs, r)
      /\ obs' = IF r.raised = "none" /\ ~IsMulti(metric)
                THEN obs \o Observed(metric, kwargs) ELSE obs
      /\ allOk' = (allOk /\ r.raised = "none")
      /\ shadow' = Track(allOk', [i \in DOMAIN shadow |->
                                    LeafUpdate(shadow[i], kwargs).state])
      /\ solo' = IF IsMulti(metric)
                 THEN UpToFirstRaise([i \in DOMAIN Children(metric) |->
                                        LeafUpdate(Children(metric)[i], kwargs)])
                 ELSE <<>>

DoCompute ==
  \E r \in {Compute(metric)} :
    /\ metric' = r.state
    /\ call' = CallRecord("compute", NoKwargs, r)
    /\ allOk' = (allOk /\ r.raised = "none")
    /\ shadow' = Track(allOk', shadow)
    /\ obs' = obs
    /\ solo' = <<>>

Next == DoReset \/ DoUpdate \/ DoCompute

Spec == Init /\ [][Next]_vars

\* ------------------------------------------------------------------ claims
\* a call that passes arg under the keyword name, and nothing else
Only(name, arg) == [NoKwargs EXCEPT ![name] = arg]

\* C1: an Average's count is the number of observations fed to it since the
\* last reset (one per number, k per array of k elements) and is >= 0, its
\* total is their sum, and with count > 0 compute returns total / count, the
\* mean of the flattened observations.
C1_AverageIsFlattenedMean ==
  metric.kind = "Average" =>
    /\ metric.count = Len(obs)
    /\ metric.count >= 0
    /\ metric.total = R(SumSeq(obs))
    /\ metric.count > 0 =>
         /\ Compute(metric).raised = "none"
         /\ Compute(metric).result = RDiv(metric.total, R(metric.count))
         /\ Compute(metric).result = Norm(SumSeq(obs), Len(obs))
    /\ call.op = "compute" /\ metric.count > 0 =>
         call.result = Norm(SumSeq(obs), Len(obs))

C1_Witness ==
  /\ metric.kind = "Average"
  /\ call.op = "compute"
  /\ Len(obs) >= 3
  /\ obs[1] # obs[2]
  /\ call.result.den > 1

\* an accumulator fed the elements of s one number at a time
RECURSIVE WelfordFeed(_, _)
WelfordFeed(self, s) ==
  IF s = <<>> THEN self
  ELSE WelfordFeed(
         WelfordUpdate(self, Only(self.argname, Scalar(Head(s)))).state, Tail(s))

\* C2: a Welford's cells depend on the observations alone, not on their
\* grouping into arrays or their order: count = N, mean = (sum of x) / N and
\* m2 = sum of (x - mean)^2 = (sum of x^2) - (sum of x)^2 / N >= 0; one update
\* with an array leaves the cells that one update per element leaves.
C2_WelfordIsBatchIndependent ==
  metric.kind = "Welford" =>
    LET N == Len(obs) IN
    /\ metric.count = N
    /\ metric.mean = (IF N = 0 THEN R(0) ELSE Norm(SumSeq(obs), N))
    /\ metric.m2 = (IF N = 0 THEN R(0)
                    ELSE Norm(N * SumSq(obs) - SumSeq(obs) * SumSeq(obs), N))
    /\ RGeq0(metric.m2)
    /\ \A b \in Batches :
         WelfordUpdate(metric, Only(metric.argname, Arr(b))).state
           = WelfordFeed(metric, b)

C2_Witness ==
  /\ metric.kind = "Welford"
  /\ call.op = "update"
  /\ Len(obs) >= 3
  /\ metric.mean.den > 1
  /\ metric.m2.num > 0
  /\ metric.countDtype = "uint32"

\* the keywords an accumulator's update cannot do without
LeafRequired(m) ==
  CASE m.kind \in {"Average", "Welford"} -> {m.argname}
    [] m.kind = "Accuracy" -> {"logits", "labels"}
    [] OTHER -> {}

Required(m) ==
  IF IsMulti(m) THEN UNION {LeafRequired(m.attrs[n]) : n \in DOMAIN m.attrs}
  ELSE LeafRequired(m)

Lacks(m, keys) == ~(Required(m) \subseteq keys)

\* the first child of a MultiMetric, in stored order, that lacks a keyword
FirstLacking(m, keys) ==
  CHOOSE i \in 1..Len(m.metric_names) :
    /\ ~(LeafRequired(Children(m)[i]) \subseteq keys)
    /\ \A j \in 1..(i - 1) : LeafRequired(Children(m)[j]) \subseteq keys

\* an accumulator of the four concrete classes, its children too
Concrete(m) ==
  IF IsMulti(m) THEN \A n \in DOMAIN m.attrs : m.attrs[n].kind # "Metric"
  ELSE m.kind # "Metric"

\* C3, as stated: an update that lacks a keyword the accumulator requires
\* fails with the argument error and leaves the state unchanged, for a
\* MultiMetric the cells of all its children.
C3_MissingKeywordChangesNothing ==
  [][(call'.op = "update" /\ Concrete(metric) /\ Lacks(metric, call'.keys)) =>
       (call'.raised = "TypeError" /\ metric' = metric)]_vars

\* C3, amended: an Average, Welford or Accuracy fails with the argument error
\* and is unchanged.  A MultiMetric fails at or before its first child that
\* lacks a keyword, with the argument error when it fails at that child; the
\* failing child and every child after it are unchanged, and the children
\* before it are not put back.
C3_MissingKeywordStopsAtChild ==
  [][(call'.op = "update" /\ Lacks(metric, call'.keys)) =>
       IF IsMulti(metric)
       THEN LET L == FirstLacking(metric, call'.keys)
                f == call'.failedAt
            IN  /\ call'.raised # "none"
                /\ f \in 1..L
                /\ f = L => call'.raised = "TypeError"
                /\ metric'.metric_names = metric.metric_names
                /\ \A i \in f..Len(metric.metric_names) :
                     Children(metric')[i] = Children(metric)[i]
       ELSE call'.raised = "TypeError" /\ metric' = metric]_vars

C3_Witness ==
  /\ IsMulti(metric)
  /\ call.op = "update"
  /\ call.raised = "TypeError"
  /\ call.failedAt = 2
  /\ call.keys = {"values"}
  /\ Children(metric)[1].count > Children(metric)[2].count

\* C4, as stated: with count = 0 a Welford's compute does not fail and all
\* three fields of its Statistics are NaN.
C4_NoDataStatisticsAllNaN ==
  (metric.kind = "Welford" /\ metric.count = 0) =>
    /\ Compute(metric).raised = "none"
    /\ IsNaN(Compute(metric).result.mean)
    /\ IsNaN(Compute(metric).result.standard_error_of_mean.sq)
    /\ IsNaN(Compute(metric).result.standard_deviation.sq)

\* C4, amended: with count = 0 a Welford's compute does not fail;
\* standard_error_of_mean and standard_deviation are NaN, and mean is the
\* zeroed running mean, 0.0.
C4_NoDataStatisticsMeanZero ==
  (metric.kind = "Welford" /\ metric.count = 0) =>
    /\ Compute(metric).raised = "none"
    /\ Compute(metric).state = metric
    /\ Compute(metric).result.mean = R(0)
    /\ IsNaN(Compute(metric).result.standard_error_of_mean.sq)
    /\ IsNaN(Compute(metric).result.standard_deviation.sq)
    /\ call.op = "compute" => call.result = Compute(metric).result

C4_Witness ==
  /\ metric.kind = "Welford"
  /\ metric.count = 0
  /\ metric.countDtype = "uint32"
  /\ call.op = "compute"
  /\ call.result.mean = R(0)

NoDataKinds == {"Average", "Accuracy"}

\* C5: right after construction, and after a reset whatever came before it,
\* compute on an Average, an Accuracy or a MultiMetric of them does not raise
\* and returns NaN, for the MultiMetric under every name.
C5_NoDataIsNaN ==
  (call.op \in {"init", "reset"} /\ call.raised = "none") =>
    /\ metric.kind \in NoDataKinds => Compute(metric) = Returned(metric, NaN)
    /\ (/\ IsMulti(metric)
        /\ \A n \in DOMAIN metric.attrs : metric.attrs[n].kind \in NoDataKinds)
       => Compute(metric)
            = Returned(metric, [i \in 1..Len(metric.metric_names) |->
                                  <<metric.metric_names[i], NaN>>])

C5_Witness ==
  /\ IsMulti(metric)
  /\ call.op = "reset"
  /\ Len(metric.metric_names) = 2
  /\ Children(metric)[1].kind = "Accuracy"
  /\ Children(metric)[2].kind = "Average"
  /\ ~allOk

\* C6: whatever argname an Accuracy was constructed with, update with int32
\* labels and logits of one more dimension succeeds, adds the matching
\* positions to total and the labels to count, and compute then returns the
\* fraction of matching positions since the last reset.
C6_AccuracyUnderAnyArgname ==
  metric.kind = "Accuracy" =>
    /\ metric.total = R(SumSeq(obs))
    /\ metric.count = Len(obs)
    /\ (/\ call.op = "update"
        /\ {"logits", "labels"} \subseteq call.keys
        /\ call.labelsDtype = "int32"
        /\ call.logitsNdim = call.labelsNdim + 1)
       => /\ call.raised = "none"
          /\ Compute(metric).result = Norm(SumSeq(obs), Len(obs))

\* C7: an Accuracy's update given logits and labels fails with the
\* shape/type error exactly when the labels are not int32 or logits has not
\* one dimension more than labels; a failed update leaves total and count.
C7_AccuracyRejectsExactly ==
  [][(metric.kind = "Accuracy" /\ call'.op = "update") =>
       /\ {"logits", "labels"} \subseteq call'.keys =>
            (call'.raised = "ValueError"
               <=> (\/ call'.labelsDtype # "int32"
                    \/ call'.logitsNdim # call'.labelsNdim + 1))
       /\ call'.raised # "none" =>
            (metric'.total = metric.total /\ metric'.count = metric.count)]_vars

C7_Witness ==
  /\ metric.kind = "Accuracy"
  /\ call.op = "update"
  /\ call.raised = "ValueError"
  /\ call.labelsDtype = "int32"
  /\ metric.count > 0

\* C8: while no call has raised, every child of a MultiMetric is in the state
\* it would be in had it received the same resets and updates on its own, and
\* compute returns the stored names in order, each with its child's compute.
C8_CompositeMatchesChildren ==
  (IsMulti(metric) /\ allOk) =>
    /\ Children(metric) = shadow
    /\ call.op = "compute" =>
         call.result = [i \in 1..Len(metric.metric_names) |->
                          <<metric.metric_names[i], LeafCompute(shadow[i]).result>>]

C8_Witness ==
  /\ IsMulti(metric)
  /\ allOk
  /\ call.op = "compute"
  /\ Len(metric.metric_names) = 2
  /\ Children(metric)[1].kind = "Accuracy"
  /\ Children(metric)[2].kind = "Average"
  /\ Children(metric)[1].count = 2
  /\ Children(metric)[2].count = 1

\* C9: compute changes no state cell of any accumulator, and a compute right
\* after a compute returns what the first returned.
C9_ComputeIsPure ==
  [][call'.op = "compute" =>
       /\ metric' = metric
       /\ call.op = "compute" =>
            (call'.raised = call.raised /\ call'.result = call.result)]_vars

C9_Witness ==
  /\ call.op = "compute"
  /\ call.raised = "none"
  /\ metric.kind = "Average"
  /\ metric.count >= 2

\* C10: when the i-th child's update or reset raises, the MultiMetric call
\* raises that error; the children before i, called in stored order, keep what
\* the call did to them, and the children after i are as they were.
C10_FailFastNoRollback ==
  [][(IsMulti(metric) /\ call'.op \in {"update", "reset"}
        /\ call'.raised # "none") =>
       LET old == Children(metric)
           new == Children(metric')
           f == call'.failedAt
       IN  /\ f \in 1..Len(old)
           /\ f = Len(solo')
           /\ solo'[f].raised = call'.raised
           /\ \A i \in 1..(f - 1) :
                solo'[i].raised = "none" /\ new[i] = solo'[i].state
           /\ \A i \in (f + 1)..Len(old) : new[i] = old[i]]_vars

C10_Witness ==
  /\ IsMulti(metric)
  /\ call.op = "update"
  /\ call.raised = "ValueError"
  /\ call.failedAt = 2
  /\ Children(metric)[1].kind = "Average"
  /\ Children(metric)[1].count = 2
  /\ Children(metric)[2].count = 0

====
